---- MODULE Spec2Model ----
(***************************************************************************)
(* A model of arcconf.py: the RAID textfile collector that runs the checks *)
(* of one vendor profile, scans each check's output line by line and       *)
(* prints one Prometheus sample per matching (line, rule).                 *)
(*                                                                         *)
(* Python strings that the program inspects character by character (the    *)
(* command output, the rule labels, the regular expressions, the captured  *)
(* values) are sequences of one-character strings.  Python's None is the   *)
(* empty sequence: neither a separator capture (\d+) nor a separator label *)
(* can be the empty string.                                                *)
(***************************************************************************)
EXTENDS Integers, Sequences, FiniteSets, TLC

None == <<>>

(* The most lines the output of a check with a separator has in the model. *)
MaxLines == 2

(* The most lines the output of a check without a separator has. *)
MaxFlatLines == 1

(***************************************************************************)
(* BINARIES: the check catalog (src/arcconf.py lines 16-122), verbatim.    *)
(* A megacli rule is the two-element list the source writes; an arcconf    *)
(* rule is a three-element list.                                           *)
(***************************************************************************)
BINARIES ==
  [
   megacli |-> [
     path |-> "/usr/local/sbin/megacli",
     checks |-> <<
       [name |-> "Enclosure state",
        args |-> <<"-EncInfo", "-aALL">>,
        test |-> "megacli/enc.txt",
        values |-> <<
          <<<<"S","t","a","t","u","s">>,
             <<"N","o","r","m","a","l">>>>
        >>],
       [name |-> "Virtual drive state",
        args |-> <<"-LDInfo", "-Lall", "-aALL", "-NoLog">>,
        test |-> "megacli/ld.txt",
        values |-> <<
          <<<<"S","t","a","t","e">>,
             <<"O","p","t","i","m","a","l">>>>,
          <<<<"B","a","d"," ","B","l","o","c","k","s"," ","E","x","i","s","t">>,
             <<"N","o">>>>
        >>],
       [name |-> "Physical drive state",
        args |-> <<"-PDList", "-aALL">>,
        test |-> "megacli/pd.txt",
        values |-> <<
          <<<<"M","e","d","i","a"," ","E","r","r","o","r"," ","C","o","u","n","t">>,
             <<"0">>>>,
          <<<<"P","r","e","d","i","c","t","i","v","e"," ","F","a","i","l","u","r","e"," ","C","o","u","n","t">>,
             <<"0">>>>,
          <<<<"F","i","r","m","w","a","r","e"," ","s","t","a","t","e">>,
             <<"O","n","l","i","n","e",","," ","S","p","u","n"," ","U","p">>>>,
          <<<<"D","r","i","v","e"," ","h","a","s"," ","f","l","a","g","g","e","d"," ","a"," ","S","\\",".","M","\\",".","A","\\",".","R","\\",".","T"," ","a","l","e","r","t">>,
             <<"N","o">>>>
        >>],
       [name |-> "Patrol read state",
        args |-> <<"-AdpPR", "-Info", "-aALL", "-NoLog">>,
        test |-> "megacli/pr.txt",
        values |-> <<
          <<<<"P","a","t","r","o","l"," ","R","e","a","d"," ","M","o","d","e">>,
             <<"A","u","t","o">>>>
        >>],
       [name |-> "Battery state",
        args |-> <<"-AdpBbuCmd", "-aALL", "-NoLog">>,
        test |-> "megacli/battery.txt",
        values |-> <<
          <<<<"B","a","t","t","e","r","y"," ","S","t","a","t","e">>,
             <<"O","p","t","i","m","a","l">>>>
        >>]
     >>],
   arcconf |-> [
     path |-> "/usr/local/sbin/arcconf",
     checks |-> <<
       [name |-> "Controller status",
        args |-> <<"GETCONFIG", "1", "AD">>,
        test |-> "arcconf/ad.txt",
        values |-> <<
          <<<<"C","o","n","t","r","o","l","l","e","r"," ","S","t","a","t","u","s">>,
             "controller_has_error", <<"O","p","t","i","m","a","l">>>>,
          <<<<"L","o","g","i","c","a","l"," ","d","e","v","i","c","e","s","/","F","a","i","l","e","d","/","D","e","g","r","a","d","e","d">>,
             "logical_device_degraded", <<"1","/","0","/","0">>>>,
          <<<<"D","e","f","u","n","c","t"," ","d","i","s","k"," ","d","r","i","v","e"," ","c","o","u","n","t">>,
             "has_defunct_drives", <<"0">>>>
        >>],
       [name |-> "Logical device state",
        args |-> <<"GETCONFIG", "1", "LD">>,
        test |-> "arcconf/ld.txt",
        values |-> <<
          <<<<"S","t","a","t","u","s"," ","o","f"," ","L","o","g","i","c","a","l"," ","D","e","v","i","c","e">>,
             "logical_device_has_error", <<"O","p","t","i","m","a","l">>>>,
          <<<<"P","a","r","i","t","y"," ","I","n","i","t","i","a","l","i","z","a","t","i","o","n"," ","S","t","a","t","u","s">>,
             "parity_initialization_incomplete", <<"C","o","m","p","l","e","t","e","d">>>>
        >>],
       [name |-> "Physical device state",
        args |-> <<"GETCONFIG", "1", "PD">>,
        test |-> "arcconf/pd.txt",
        separator |-> [regex |-> <<"\\","s","+","D","e","v","i","c","e"," ","#","(","\\","d","+",")">>,
                       label |-> <<"d","e","v","i","c","e">>],
        values |-> <<
          <<<<"S","t","a","t","e">>,
             "drive_offline", <<"O","n","l","i","n","e">>>>,
          <<<<"S",".","M",".","A",".","R",".","T","."," ","w","a","r","n","i","n","g","s">>,
             "drive_has_smart_warnings", <<"0">>>>,
          <<<<"A","b","o","r","t","e","d"," ","C","o","m","m","a","n","d","s">>,
             "drive_has_aborted_commands", <<"0">>>>,
          <<<<"B","a","d"," ","T","a","r","g","e","t"," ","E","r","r","o","r","s">>,
             "drive_has_bad_target_errors", <<"0">>>>,
          <<<<"F","o","r","m","a","t"," ","E","r","r","o","r","s">>,
             "drive_has_format_errors", <<"0">>>>,
          <<<<"H","a","r","d","w","a","r","e"," ","E","r","r","o","r","s">>,
             "drive_has_hardware_errors", <<"0">>>>,
          <<<<"H","a","r","d"," ","R","e","a","d"," ","E","r","r","o","r","s">>,
             "drive_has_hw_read_errors", <<"0">>>>,
          <<<<"H","a","r","d"," ","W","r","i","t","e"," ","E","r","r","o","r","s">>,
             "drive_has_hw_read_errors", <<"0">>>>,
          <<<<"M","e","d","i","a"," ","F","a","i","l","u","r","e","s">>,
             "drive_has_media_failures", <<"0">>>>,
          <<<<"N","o","t"," ","R","e","a","d","y"," ","E","r","r","o","r","s">>,
             "drive_has_not_ready_errors", <<"0">>>>,
          <<<<"P","r","e","d","i","c","t","i","v","e"," ","F","a","i","l","u","r","e","s">>,
             "drive_has_predictive_failures", <<"0">>>>,
          <<<<"S","c","s","i"," ","B","u","s"," ","F","a","u","l","t","s">>,
             "drive_has_scsi_bus_faults", <<"0">>>>
        >>]
     >>]
  ]

(***************************************************************************)
(* Character classes of Python's re module, on the characters the model    *)
(* uses.                                                                   *)
(***************************************************************************)
Digits == {"0","1","2","3","4","5","6","7","8","9"}

Letters ==
  {"a","b","c","d","e","f","g","h","i","j","k","l","m",
   "n","o","p","q","r","s","t","u","v","w","x","y","z",
   "A","B","C","D","E","F","G","H","I","J","K","L","M",
   "N","O","P","Q","R","S","T","U","V","W","X","Y","Z"}

IsSpace(c) == c \in {" ", "\t", "\n"}

IsDigit(c) == c \in Digits

IsWord(c) == c \in Letters \cup Digits \cup {"_"}

(***************************************************************************)
(* re.compile on the constructs the program's patterns use: ^ $ ( ) .      *)
(* \s \d \w, an escaped character, a literal character, and the            *)
(* quantifiers * and + on the preceding atom.                              *)
(***************************************************************************)
Tok(t, cls, c, rep) == [t |-> t, cls |-> cls, c |-> c, rep |-> rep]

RECURSIVE re_compile(_, _)
re_compile(pat, i) ==
  IF i > Len(pat) THEN <<>>
  ELSE
    LET c    == pat[i]
        esc  == c = "\\" /\ i < Len(pat)
        ch   == IF esc THEN pat[i + 1] ELSE c
        cls  == IF esc
                THEN (CASE ch = "s" -> "space"
                        [] ch = "d" -> "digit"
                        [] ch = "w" -> "word"
                        [] OTHER    -> "lit")
                ELSE IF c = "." THEN "any" ELSE "lit"
        j    == IF esc THEN i + 2 ELSE i + 1
        rep  == IF j <= Len(pat) /\ pat[j] = "*" THEN "star"
                ELSE IF j <= Len(pat) /\ pat[j] = "+" THEN "plus"
                ELSE "one"
        next == IF rep = "one" THEN j ELSE j + 1
    IN  IF ~esc /\ c = "^" THEN <<Tok("bol", "", "", "one")>> \o re_compile(pat, i + 1)
        ELSE IF ~esc /\ c = "$" THEN <<Tok("eol", "", "", "one")>> \o re_compile(pat, i + 1)
        ELSE IF ~esc /\ c = "(" THEN <<Tok("open", "", "", "one")>> \o re_compile(pat, i + 1)
        ELSE IF ~esc /\ c = ")" THEN <<Tok("close", "", "", "one")>> \o re_compile(pat, i + 1)
        ELSE <<Tok("atom", cls, ch, rep)>> \o re_compile(pat, next)

(* Does the atom tk accept the character c? ('.' accepts all but newline.) *)
Accepts(tk, c) ==
  CASE tk.cls = "lit"   -> c = tk.c
    [] tk.cls = "any"   -> c # "\n"
    [] tk.cls = "space" -> IsSpace(c)
    [] tk.cls = "digit" -> IsDigit(c)
    [] tk.cls = "word"  -> IsWord(c)

(* The length of the longest run of characters of s from p that tk accepts. *)
RECURSIVE RunLen(_, _, _)
RunLen(tk, s, p) ==
  IF p <= Len(s) /\ Accepts(tk, s[p]) THEN 1 + RunLen(tk, s, p + 1) ELSE 0

NoMatch == [ok |-> FALSE, g |-> <<0, 0>>]

(***************************************************************************)
(* The backtracking matcher: the tokens from i on against s from p on.     *)
(* A quantified atom is greedy: the longest run first, then shorter ones.  *)
(* g is <<start, end>> of group 1 (end exclusive).                         *)
(***************************************************************************)
RECURSIVE re_m(_, _, _, _, _)
RECURSIVE re_rep(_, _, _, _, _, _, _)
re_m(toks, i, s, p, g) ==
  IF i > Len(toks) THEN [ok |-> TRUE, g |-> g]
  ELSE
    LET tk == toks[i] IN
    CASE tk.t = "bol"   -> IF p = 1 THEN re_m(toks, i + 1, s, p, g) ELSE NoMatch
      [] tk.t = "eol"   -> IF p = Len(s) + 1 THEN re_m(toks, i + 1, s, p, g) ELSE NoMatch
      [] tk.t = "open"  -> re_m(toks, i + 1, s, p, <<p, g[2]>>)
      [] tk.t = "close" -> re_m(toks, i + 1, s, p, <<g[1], p>>)
      [] tk.t = "atom"  ->
           IF tk.rep = "one"
           THEN IF p <= Len(s) /\ Accepts(tk, s[p])
                THEN re_m(toks, i + 1, s, p + 1, g)
                ELSE NoMatch
           ELSE re_rep(toks, i, s, p, g, RunLen(toks[i], s, p),
                       IF tk.rep = "plus" THEN 1 ELSE 0)

re_rep(toks, i, s, p, g, k, min) ==
  IF k < min THEN NoMatch
  ELSE LET r == re_m(toks, i + 1, s, p + k, g)
       IN  IF r.ok THEN r ELSE re_rep(toks, i, s, p, g, k - 1, min)

(* AttrPattern whose value group takes any characters, not a word first. *)
AttrPattern_AnyValue(attribute_name) ==
  <<"^","\\","s","*">> \o attribute_name
    \o <<"\\","s","*",":","\\","s","*","(",".","+",")","$">>

(* Line 193: the pattern the f-string builds for one rule. *)
AttrPattern(attribute_name) ==
  <<"^","\\","s","*">> \o attribute_name
    \o <<"\\","s","*",":","\\","s","*","(","\\","w","+",".","*",")","$">>

(***************************************************************************)
(* The re module's cache of compiled patterns: every pattern the catalog   *)
(* can give rise to, compiled once.                                        *)
(***************************************************************************)
Patterns ==
  UNION {UNION {
    {AttrPattern(c.values[r][1]) : r \in 1..Len(c.values)}
      \cup (IF "separator" \in DOMAIN c THEN {c.separator.regex} ELSE {})
    : c \in {BINARIES[b].checks[k] : k \in 1..Len(BINARIES[b].checks)}}
    : b \in DOMAIN BINARIES}

re_cache == [pattern \in Patterns |-> re_compile(pattern, 1)]

(* re.match(pattern, string): anchored at the start of the string only. *)
re_match(pattern, string) == re_m(re_cache[pattern], 1, string, 1, <<0, 0>>)

(* res.group(1) of a successful match. *)
group1(res, string) == SubSeq(string, res.g[1], res.g[2] - 1)

(* str.splitlines(): no empty last line after a trailing line break. *)
RECURSIVE splitlines(_)
splitlines(s) ==
  IF s = <<>> THEN <<>>
  ELSE
    LET brk == {n \in 1..Len(s) : s[n] = "\n"} IN
    IF brk = {} THEN <<s>>
    ELSE LET n == CHOOSE m \in brk : \A o \in brk : m <= o
         IN  <<SubSeq(s, 1, n - 1)>> \o splitlines(SubSeq(s, n + 1, Len(s)))

(***************************************************************************)
(* Inputs.  MockLines: the lines a check's output is made of in the model, *)
(* per profile and check.  A check's output is any sequence of at most     *)
(* MaxLines (MaxFlatLines) of them, joined by line breaks.                 *)
(***************************************************************************)
MockLines ==
  [megacli |-> <<
     {<<"S","t","a","t","u","s"," ",":"," ","N","o","r","m","a","l">>},
     {<<"S","t","a","t","e"," ",":"," ","O","p","t","i","m","a","l">>},
     {<<"M","e","d","i","a"," ","E","r","r","o","r"," ","C","o","u","n","t"," "," "," ",":"," ","3">>},
     {<<"P","a","t","r","o","l"," ","R","e","a","d"," ","M","o","d","e"," ",":"," ","A","u","t","o">>},
     {<<"B","a","t","t","e","r","y"," ","S","t","a","t","e"," ",":"," ","O","p","t","i","m","a","l">>}
   >>,
   arcconf |-> <<
     {<<"C","o","n","t","r","o","l","l","e","r"," ","S","t","a","t","u","s"," ",":"," ","O","p","t","i","m","a","l">>},
     {<<"S","t","a","t","u","s"," ","o","f"," ","L","o","g","i","c","a","l"," ","D","e","v","i","c","e"," ",":"," ","D","e","g","r","a","d","e","d">>},
     {<<" ","D","e","v","i","c","e"," ","#","0">>,
      <<" "," ","D","e","v","i","c","e"," ","#","1","2">>,
      <<" ","S","t","a","t","e"," ",":"," ","O","n","l","i","n","e">>,
      <<"S","t","a","t","e",":","o","n","l","i","n","e">>,
      <<"S","x","M",".","A",".","R",".","T","."," ","w","a","r","n","i","n","g","s",":"," ","0"," ">>,
      <<"M","e","d","i","a"," ","F","a","i","l","u","r","e","s"," ",":"," ","-","5">>,
      <<"M","e","d","i","a"," ","F","a","i","l","u","r","e","s"," ",":"," ","3">>,
      <<"S","t","a","t","e"," ",":">>}
   >>]

(* '\n'.join(ls) *)
RECURSIVE Join(_)
Join(ls) ==
  IF ls = <<>> THEN <<>>
  ELSE IF Len(ls) = 1 THEN ls[1]
  ELSE ls[1] \o <<"\n">> \o Join(Tail(ls))

Texts(vendor, k) ==
  LET most == IF "separator" \in DOMAIN BINARIES[vendor].checks[k]
              THEN MaxLines ELSE MaxFlatLines
  IN  {Join(ls) : ls \in UNION {[1..n -> MockLines[vendor][k]] : n \in 0..most}}

(***************************************************************************)
(* What one fetch of check k can yield (lines 171-177): in debug mode the  *)
(* mock file's content, or no readable file; otherwise the vendor          *)
(* binary's stdout and return code.                                        *)
(***************************************************************************)
FetchResults(vendor, k, dbg) ==
  IF dbg
  THEN {[stdout |-> t, returncode |-> 0, readable |-> TRUE] : t \in Texts(vendor, k)}
       \cup {[stdout |-> <<>>, returncode |-> 0, readable |-> FALSE]}
  ELSE {[stdout |-> t, returncode |-> 0, readable |-> TRUE] : t \in Texts(vendor, k)}
       \cup {[stdout |-> t, returncode |-> 1, readable |-> TRUE] :
               t \in {u \in Texts(vendor, k) : Len(splitlines(u)) <= 1}}

Vendors == {"arcconf", "megacli", "storcli", ""}

VARIABLES
  vendor_binary,    \* args.vendor_binary
  debug,            \* args.debug
  pc,               \* "start", "check", "lines", "done", "aborted"
  exit_cause,       \* why the run aborted ("" while it has not)
  check_idx,        \* position of the for loop over binary_config['checks']
  cmd_res,          \* the text of the current check
  lines,            \* cmd_res.splitlines(), the list the for loop runs over
  line_idx,         \* position of the for loop over cmd_res.splitlines()
  separator_value,
  separator_label,
  metrics,          \* the list collect_metrics builds
  stdout,           \* the lines printed so far
  origin,           \* history: <<check, line, rule>> of each element of metrics
  fetch_log         \* history: the result of every fetch, in order, and its lines

vars == <<vendor_binary, debug, pc, exit_cause, check_idx, cmd_res, lines, line_idx,
          separator_value, separator_label, metrics, stdout, origin, fetch_log>>

Init ==
  /\ vendor_binary \in Vendors
  /\ debug \in BOOLEAN
  /\ pc = "start"
  /\ exit_cause = ""
  /\ check_idx = 0
  /\ cmd_res = <<>>
  /\ lines = <<>>
  /\ line_idx = 0
  /\ separator_value = None
  /\ separator_label = None
  /\ metrics = <<>>
  /\ stdout = <<>>
  /\ origin = <<>>
  /\ fetch_log = <<>>

binary_config == BINARIES[vendor_binary]

checks == binary_config.checks

(* Terminate, but flushing the records collected so far on the way out. *)
Terminate_Flush(cause) ==
  /\ pc' = "aborted"
  /\ exit_cause' = cause
  /\ stdout' = stdout \o [i \in 1..Len(metrics) |-> <<vendor_binary, "_", metrics[i][1]>>]

(***************************************************************************)
(* The run ends without printing: sys.exit(1) after logger.error, or an    *)
(* exception nothing catches (NameError, CalledProcessError,               *)
(* FileNotFoundError, ValueError).  The metrics list is local to           *)
(* collect_metrics and is lost.                                            *)
(***************************************************************************)
Terminate(cause) ==
  /\ pc' = "aborted"
  /\ exit_cause' = cause
  /\ stdout' = stdout

(***************************************************************************)
(* Lines 156-164: resolve the profile, check that the binary exists.       *)
(* args.vendor_binary = '' falls through to `config`, a name the module    *)
(* never binds.                                                            *)
(***************************************************************************)
Start ==
  /\ pc = "start"
  /\ \E isfile \in BOOLEAN :
       IF vendor_binary = "" THEN
         /\ Terminate("NameError")
         /\ UNCHANGED check_idx
       ELSE IF vendor_binary \notin DOMAIN BINARIES THEN
         /\ Terminate("UnknownProfile")
         /\ UNCHANGED check_idx
       ELSE IF ~debug /\ ~isfile THEN
         /\ Terminate("BinaryUnavailable")
         /\ UNCHANGED check_idx
       ELSE
         /\ pc' = "check"
         /\ check_idx' = 1
         /\ UNCHANGED <<exit_cause, stdout>>
  /\ UNCHANGED <<vendor_binary, debug, cmd_res, lines, line_idx, separator_value,
                 separator_label, metrics, origin, fetch_log>>

(* FetchFailure without the test for empty output. *)
FetchFailure_EmptyAccepted(dbg, res) ==
  IF dbg THEN (IF res.readable THEN "" ELSE "FixtureReadFailure")
  ELSE IF res.returncode # 0 THEN "CalledProcessError"
  ELSE ""

(***************************************************************************)
(* Lines 171-180: is the fetch fatal?  In debug mode only an unreadable    *)
(* mock file is (open raises); otherwise a non-zero return code is         *)
(* (check=True raises CalledProcessError) and so is empty output.          *)
(***************************************************************************)
FetchFailure(dbg, res) ==
  IF dbg THEN (IF res.readable THEN "" ELSE "FixtureReadFailure")
  ELSE IF res.returncode # 0 THEN "CalledProcessError"
  ELSE IF Len(res.stdout) = 0 \/ res.returncode # 0 THEN "CheckExecutionFailure"
  ELSE ""

(***************************************************************************)
(* Lines 166-182: the head of the loop over the checks, the fetch, and the *)
(* head of the loop over the lines.                                        *)
(***************************************************************************)
RunCheck ==
  /\ pc = "check"
  /\ check_idx <= Len(checks)
  /\ \E res \in FetchResults(vendor_binary, check_idx, debug) :
       /\ fetch_log' = Append(fetch_log, [stdout     |-> res.stdout,
                                          returncode |-> res.returncode,
                                          readable   |-> res.readable,
                                          lines      |-> splitlines(res.stdout)])
       /\ separator_value' = None
       /\ separator_label' = None
       /\ IF FetchFailure(debug, res) # "" THEN
            /\ Terminate(FetchFailure(debug, res))
            /\ UNCHANGED <<cmd_res, lines, line_idx>>
          ELSE
            /\ cmd_res' = res.stdout
            /\ lines' = splitlines(res.stdout)
            /\ line_idx' = 1
            /\ pc' = "lines"
            /\ UNCHANGED <<exit_cause, stdout>>
  /\ UNCHANGED <<vendor_binary, debug, check_idx, metrics, origin>>

(* UpdateSeparator capturing (\d) in place of (\d+). *)
UpdateSeparator_OneDigit(check, line, label, value) ==
  IF "separator" \in DOMAIN check
  THEN LET res == re_match(check.separator.regex, line)
       IN  IF res.ok
           THEN <<check.separator.label, SubSeq(group1(res, line), 1, 1)>>
           ELSE <<label, value>>
  ELSE <<label, value>>

(* UpdateSeparator with the label taken from the check, match or no match. *)
UpdateSeparator_FixedLabel(check, line, label, value) ==
  IF "separator" \in DOMAIN check
  THEN LET res == re_match(check.separator.regex, line)
       IN  IF res.ok
           THEN <<check.separator.label, group1(res, line)>>
           ELSE <<check.separator.label, value>>
  ELSE <<label, value>>

(* UpdateSeparator that sets the value and forgets the label. *)
UpdateSeparator_ValueOnly(check, line, label, value) ==
  IF "separator" \in DOMAIN check
  THEN LET res == re_match(check.separator.regex, line)
       IN  IF res.ok
           THEN <<label, group1(res, line)>>
           ELSE <<label, value>>
  ELSE <<label, value>>

(* Lines 184-189: try to update the separator from the line. *)
UpdateSeparator(check, line, label, value) ==
  IF "separator" \in DOMAIN check
  THEN LET res == re_match(check.separator.regex, line)
       IN  IF res.ok
           THEN <<check.separator.label, group1(res, line)>>
           ELSE <<label, value>>
  ELSE <<label, value>>

(* Status with == in place of !=. *)
Status_Inverted(observed, expected_value) == IF observed = expected_value THEN 1 ELSE 0

(* Line 199: int(res.group(1) != expected_value) *)
Status(observed, expected_value) == IF observed # expected_value THEN 1 ELSE 0

(***************************************************************************)
(* Lines 192-201: the loop over check['values'] for one line, from rule r  *)
(* on.  Unpacking a rule that is not a three-element list raises           *)
(* ValueError.  Yields the records appended, the rule of each, and whether *)
(* the loop raised.                                                        *)
(***************************************************************************)
RECURSIVE RuleLoop(_, _, _, _, _)
RuleLoop(values, r, line, label, value) ==
  IF r > Len(values) THEN [recs |-> <<>>, rules |-> <<>>, raised |-> FALSE]
  ELSE IF Len(values[r]) # 3 THEN [recs |-> <<>>, rules |-> <<>>, raised |-> TRUE]
  ELSE
    LET attribute_name == values[r][1]
        metric_name    == values[r][2]
        expected_value == values[r][3]
        res  == re_match(AttrPattern(attribute_name), line)
        rest == RuleLoop(values, r + 1, line, label, value)
    IN  IF res.ok
        THEN [recs   |-> <<<<metric_name, label, value,
                            Status(group1(res, line), expected_value),
                            group1(res, line)>>>> \o rest.recs,
              rules  |-> <<r>> \o rest.rules,
              raised |-> rest.raised]
        ELSE rest

(* append that skips a record the list already holds. *)
append_Dedup(ms, recs) ==
  ms \o SelectSeq(recs, LAMBDA x : \A i \in 1..Len(ms) : ms[i] # x)

(* Line 195: metrics.append(...) for each record of one line, in order. *)
append(ms, recs) == ms \o recs

(* Lines 182-201: one iteration of the loop over the lines. *)
ScanLine ==
  /\ pc = "lines"
  /\ line_idx <= Len(lines)
  /\ LET check == checks[check_idx]
         line  == lines[line_idx]
         sep   == UpdateSeparator(check, line, separator_label, separator_value)
         loop  == RuleLoop(check.values, 1, line, sep[1], sep[2])
     IN  /\ separator_label' = sep[1]
         /\ separator_value' = sep[2]
         /\ metrics' = append(metrics, loop.recs)
         /\ origin' = origin \o [i \in 1..Len(loop.rules) |->
                                   <<check_idx, line_idx, loop.rules[i]>>]
         /\ IF loop.raised THEN
              /\ Terminate("ValueError")
              /\ UNCHANGED line_idx
            ELSE
              /\ line_idx' = line_idx + 1
              /\ UNCHANGED <<pc, exit_cause, stdout>>
  /\ UNCHANGED <<vendor_binary, debug, check_idx, cmd_res, lines, fetch_log>>

(* The loop over the lines is exhausted: on to the next check. *)
NextCheck ==
  /\ pc = "lines"
  /\ line_idx > Len(lines)
  /\ pc' = "check"
  /\ check_idx' = check_idx + 1
  /\ UNCHANGED <<vendor_binary, debug, exit_cause, cmd_res, lines, line_idx,
                 separator_value, separator_label, metrics, stdout, origin,
                 fetch_log>>

(* str(None), and str of a string. *)
str(v) == IF v = None THEN <<"N","o","n","e">> ELSE v

(***************************************************************************)
(* Lines 208-213: the line printed for one record, as the sequence of the  *)
(* pieces the f-string puts together.                                      *)
(***************************************************************************)
FormatMetric(vendor, m) ==
  LET metric       == m[1]
      label_name   == m[2]
      label_value  == m[3]
      status       == m[4]
      metric_value == m[5]
  IN  IF label_name # None
      THEN <<vendor, "_", metric, "{">> \o label_name \o <<"=", "\"">>
             \o str(label_value) \o <<"\"", ",", "state", "=", "\"">>
             \o metric_value \o <<"\"", "}", " ", ToString(status)>>
      ELSE <<vendor, "_", metric, "{", "state", "=", "\"">>
             \o metric_value \o <<"\"", "}", " ", ToString(status)>>

print_all_metrics(ms) == [i \in 1..Len(ms) |-> FormatMetric(vendor_binary, ms[i])]

(* Lines 204-205 and 215-217: collect_metrics returns, main prints. *)
Main ==
  /\ pc = "check"
  /\ check_idx > Len(checks)
  /\ stdout' = stdout \o print_all_metrics(metrics)
  /\ pc' = "done"
  /\ UNCHANGED <<vendor_binary, debug, exit_cause, check_idx, cmd_res, lines,
                 line_idx, separator_value, separator_label, metrics, origin,
                 fetch_log>>

Next ==
  \/ Start
  \/ RunCheck
  \/ ScanLine
  \/ NextCheck
  \/ Main

Spec == Init /\ [][Next]_vars

(***************************************************************************)
(* Vocabulary of the properties.  The forms of a line are stated here      *)
(* directly on the characters, without the pattern matcher.                *)
(***************************************************************************)
Known == vendor_binary \in DOMAIN BINARIES

(* The lines of the k-th fetch. *)
LinesOf(k) == fetch_log[k].lines

(* The check, the line and the rule the i-th record comes from. *)
CheckOf(i) == checks[origin[i][1]]

LineOf(i) == LinesOf(origin[i][1])[origin[i][2]]

RuleOf(i) == CheckOf(i).values[origin[i][3]]

HasSeparator(check) == "separator" \in DOMAIN check

(* The fetch was fatal: unreadable mock file, non-zero return code, or *)
(* empty output of a live invocation.                                  *)
Fatal(res) == ~res.readable \/ res.returncode # 0 \/ (~debug /\ res.stdout = <<>>)

(* <<k, l>>: line l of check k has been through the loop body. *)
Scanned ==
  IF ~Known THEN {}
  ELSE {kl \in UNION {{<<k, l>> : l \in 1..Len(LinesOf(k))} : k \in 1..Len(fetch_log)} :
          /\ ~Fatal(fetch_log[kl[1]])
          /\ kl[1] < check_idx \/ (kl[1] = check_idx /\ kl[2] < line_idx)}

(* rule r of check k is a (label, metric name, expected value) triple *)
Triples(k) == {r \in 1..Len(checks[k].values) : Len(checks[k].values[r]) = 3}

(* The number of whitespace characters s has from position p on. *)
SpacesAt(s, p) ==
  CHOOSE n \in 0..(Len(s) + 1 - p) :
    /\ \A m \in 0..(n - 1) : IsSpace(s[p + m])
    /\ p + n > Len(s) \/ ~IsSpace(s[p + n])

(* The number of digits s has from position p on. *)
DigitsAt(s, p) ==
  CHOOSE n \in 0..(Len(s) + 1 - p) :
    /\ \A m \in 0..(n - 1) : IsDigit(s[p + m])
    /\ p + n > Len(s) \/ ~IsDigit(s[p + n])

DeviceText == <<"D","e","v","i","c","e"," ","#">>

(* The line is a separator line of the physical device check: whitespace, *)
(* "Device #", a number.                                                  *)
IsDeviceLine(line) ==
  LET n == SpacesAt(line, 1)
  IN  /\ n >= 1
      /\ n + Len(DeviceText) <= Len(line)
      /\ SubSeq(line, n + 1, n + Len(DeviceText)) = DeviceText
      /\ DigitsAt(line, n + Len(DeviceText) + 1) >= 1

DeviceNumber(line) ==
  LET p == SpacesAt(line, 1) + Len(DeviceText) + 1
  IN  SubSeq(line, p, p + DigitsAt(line, p) - 1)

(* The capture of the last separator line among lines 1..l, or None. *)
NearestGroup(ls, l) ==
  LET seps == {j \in 1..l : IsDeviceLine(ls[j])}
  IN  IF seps = {} THEN None
      ELSE DeviceNumber(ls[CHOOSE j \in seps : \A o \in seps : o <= j])

(***************************************************************************)
(* Where the value of an attribute line starts: after leading whitespace,  *)
(* as many characters as the label has, whitespace, a colon, whitespace.   *)
(* 0 if the colon is not there.                                            *)
(***************************************************************************)
ValueStart(line, label) ==
  LET a == SpacesAt(line, 1) + Len(label) + 1
      b == a + SpacesAt(line, a)
  IN  IF b <= Len(line) /\ line[b] = ":"
      THEN b + 1 + SpacesAt(line, b + 1)
      ELSE 0

(* The label stands in the line, character for character. *)
LabelLiteral(line, label) ==
  LET n == SpacesAt(line, 1)
  IN  /\ n + Len(label) <= Len(line)
      /\ SubSeq(line, n + 1, n + Len(label)) = label

(* The label stands in the line when read as a pattern: a dot stands for *)
(* any character.                                                        *)
LabelAsPattern(line, label) ==
  LET n == SpacesAt(line, 1)
  IN  /\ n + Len(label) <= Len(line)
      /\ \A m \in 1..Len(label) : label[m] = "." \/ label[m] = line[n + m]

(* The record of line l of check k for rule r, if there is one. *)
RecordsAt(k, l, r) == {i \in 1..Len(metrics) : origin[i] = <<k, l, r>>}

Before(o1, o2) ==
  \/ o1[1] < o2[1]
  \/ o1[1] = o2[1] /\ o1[2] < o2[2]
  \/ o1[1] = o2[1] /\ o1[2] = o2[2] /\ o1[3] < o2[3]

(* The two forms of a printed line (the exposition format). *)
WithLabel(m, label) ==
  <<vendor_binary, "_", m[1], "{">> \o label \o <<"=", "\"">> \o m[3]
    \o <<"\"", ",", "state", "=", "\"">> \o m[5] \o <<"\"", "}", " ", ToString(m[4])>>

WithoutLabel(m) ==
  <<vendor_binary, "_", m[1], "{", "state", "=", "\"">> \o m[5]
    \o <<"\"", "}", " ", ToString(m[4])>>

TypeOK ==
  /\ pc \in {"start", "check", "lines", "done", "aborted"}
  /\ Len(origin) = Len(metrics)
  /\ metrics # <<>> => Known
  /\ fetch_log # <<>> => Known

C2_StatusIsExactComparison ==
  \A i \in 1..Len(metrics) :
    LET start == ValueStart(LineOf(i), RuleOf(i)[1])
    IN  /\ metrics[i][4] \in {0, 1}
        /\ metrics[i][4] = 0 <=> metrics[i][5] = RuleOf(i)[3]
        /\ start > 0
        /\ metrics[i][5] = SubSeq(LineOf(i), start, Len(LineOf(i)))

(* Observed "3" against expected "0": status 1; and a record with status 0. *)
C2_Witness ==
  /\ \E i \in 1..Len(metrics) :
       metrics[i][5] = <<"3">> /\ RuleOf(i)[3] = <<"0">> /\ metrics[i][4] = 1
  /\ \E i \in 1..Len(metrics) : metrics[i][4] = 0

(***************************************************************************)
(* C3.  The label of a rule is literal text: the line of every record has  *)
(* the rule's label in it, character for character.                        *)
(***************************************************************************)
C3_LabelIsLiteral ==
  \A i \in 1..Len(metrics) : LabelLiteral(LineOf(i), RuleOf(i)[1])

(***************************************************************************)
(* C4.  A run is all or nothing.  Something is printed only by a           *)
(* completed run; a completed run has fetched every check without a        *)
(* failure, has scanned every line and has printed one line per record;    *)
(* an aborted run has printed nothing; a failed fetch is the last fetch.   *)
(***************************************************************************)
C4_AllOrNothing ==
  /\ stdout # <<>> => pc = "done"
  /\ pc = "aborted" => stdout = <<>>
  /\ pc = "done" =>
       /\ Len(fetch_log) = Len(checks)
       /\ \A k \in 1..Len(fetch_log) : ~Fatal(fetch_log[k])
       /\ \A k \in 1..Len(fetch_log) : \A l \in 1..Len(LinesOf(k)) : <<k, l>> \in Scanned
       /\ Len(stdout) = Len(metrics)
  /\ \A k \in 1..Len(fetch_log) :
       Fatal(fetch_log[k]) => k = Len(fetch_log) /\ pc = "aborted"

(* A fetch fails after earlier checks have produced records. *)
C4_Witness ==
  /\ pc = "aborted"
  /\ metrics # <<>>
  /\ fetch_log # <<>>
  /\ Fatal(fetch_log[Len(fetch_log)])

(***************************************************************************)
(* C5 as stated.  Once the text of a check is empty because its mock file  *)
(* is empty, or a live invocation has exited non-zero, the run does not    *)
(* complete and prints nothing.                                            *)
(***************************************************************************)
C5_EmptyFixtureAborts ==
  (\E k \in 1..Len(fetch_log) :
      \/ debug /\ fetch_log[k].readable /\ fetch_log[k].stdout = <<>>
      \/ ~debug /\ fetch_log[k].returncode # 0)
  => (pc # "done" /\ stdout = <<>>)

(***************************************************************************)
(* C5 amended.  Once a live invocation has exited non-zero or has          *)
(* returned empty output, or a mock file could not be read, the run is     *)
(* aborted at that check and prints nothing; an empty mock file is not a   *)
(* failure: the check is scanned as zero lines and the run goes on.        *)
(***************************************************************************)
C5_FailedFetchAborts ==
  /\ \A k \in 1..Len(fetch_log) :
       Fatal(fetch_log[k]) =>
         /\ pc = "aborted"
         /\ stdout = <<>>
         /\ check_idx = k
         /\ k = Len(fetch_log)
  /\ \A k \in 1..Len(fetch_log) :
       (debug /\ fetch_log[k].readable /\ fetch_log[k].stdout = <<>>) =>
         \/ check_idx > k
         \/ check_idx = k /\ pc = "lines" /\ cmd_res = <<>>

(* A live invocation returns nothing after earlier checks produced records. *)
C5_Witness ==
  /\ ~debug
  /\ pc = "aborted"
  /\ metrics # <<>>
  /\ fetch_log # <<>>
  /\ fetch_log[Len(fetch_log)].returncode = 0
  /\ fetch_log[Len(fetch_log)].stdout = <<>>

(***************************************************************************)
(* C6 as stated.  The group label of a record is fixed by its check: the   *)
(* separator's label if the check has a separator, None if it has not.     *)
(***************************************************************************)
C6_LabelFixedByCheck ==
  \A i \in 1..Len(metrics) :
    metrics[i][2] = IF HasSeparator(CheckOf(i))
                    THEN CheckOf(i).separator.label
                    ELSE None

(***************************************************************************)
(* C6 amended.  The group label of a record is the separator's label if    *)
(* its check has a separator and a separator line stands at or before the  *)
(* record's line in that check's output; otherwise (a line before the      *)
(* first separator line, a check without a separator) it is None.          *)
(***************************************************************************)
C6_LabelSetByFirstSeparator ==
  \A i \in 1..Len(metrics) :
    metrics[i][2] =
      IF /\ HasSeparator(CheckOf(i))
         /\ \E j \in 1..origin[i][2] : IsDeviceLine(LinesOf(origin[i][1])[j])
      THEN CheckOf(i).separator.label
      ELSE None

(* A check with a separator, scanned to its end: the record of line 1 has *)
(* no label, the separator line comes after it.                          *)
C6_Witness ==
  \E i \in 1..Len(metrics) :
    /\ HasSeparator(CheckOf(i))
    /\ origin[i][2] = 1
    /\ metrics[i][2] = None
    /\ Len(LinesOf(origin[i][1])) = 2
    /\ IsDeviceLine(LinesOf(origin[i][1])[2])
    /\ <<origin[i][1], 2>> \in Scanned

(***************************************************************************)
(* C7.  Every rule of every profile is a triple the rule loop can unpack:  *)
(* a run of a profile of the catalog aborts only because the binary is     *)
(* missing or a fetch failed.                                              *)
(***************************************************************************)
C7_RuleLoopCompletes ==
  (Known /\ pc = "aborted") =>
    exit_cause \in {"BinaryUnavailable", "CalledProcessError",
                    "CheckExecutionFailure", "FixtureReadFailure"}

C9_State ==
  /\ Len(origin) = Len(metrics)
  /\ \A i, j \in 1..Len(origin) : i < j => Before(origin[i], origin[j])
  /\ \A i \in 1..Len(origin) :
       /\ <<origin[i][1], origin[i][2]>> \in Scanned
       /\ origin[i][3] \in Triples(origin[i][1])
       /\ metrics[i][1] = RuleOf(i)[2]
  /\ \A kl \in Scanned : \A r \in Triples(kl[1]) :
       LET line  == LinesOf(kl[1])[kl[2]]
           label == checks[kl[1]].values[r][1]
           start == ValueStart(line, label)
       IN  (/\ LabelAsPattern(line, label)
            /\ start > 0
            /\ start <= Len(line)
            /\ IsWord(line[start]))
           <=> RecordsAt(kl[1], kl[2], r) # {}

C9_AppendOnly ==
  /\ Len(metrics') >= Len(metrics)
  /\ SubSeq(metrics', 1, Len(metrics)) = metrics

C10_LabelAndValueTogether ==
  /\ \A i \in 1..Len(metrics) :
       /\ metrics[i][2] = None <=> metrics[i][3] = None
       /\ ~HasSeparator(CheckOf(i)) => metrics[i][2] = None
  /\ pc = "done" =>
       /\ Len(stdout) = Len(metrics)
       /\ \A i \in 1..Len(stdout) :
            stdout[i] = IF metrics[i][3] = None
                        THEN WithoutLabel(metrics[i])
                        ELSE WithLabel(metrics[i], CheckOf(i).separator.label)

(* A completed run that printed lines of both forms. *)
C10_Witness ==
  /\ pc = "done"
  /\ \E i, j \in 1..Len(stdout) :
       /\ stdout[i] = WithoutLabel(metrics[i])
       /\ metrics[j][3] # None
       /\ stdout[j] = WithLabel(metrics[j], CheckOf(j).separator.label)
====
